---- MODULE Spec2Model ----
(***************************************************************************)
(* Component tree of pyRevit (Lib/pyRevit/_basecomponents.py): containers   *)
(* that keep an ordered list of sub-components and reorder it per a layout  *)
(* file each time they are iterated, and the construction of containers    *)
(* and commands from directories.                                          *)
(*                                                                         *)
(* Python lists are modelled as sequences, so the Python index i is the    *)
(* position i + 1 here.  Directories and the names derived from them are   *)
(* sequences of characters; the path separator op.sep is "/", as in the    *)
(* docstrings of _get_unique_name.                                         *)
(***************************************************************************)
EXTENDS Integers, Sequences, FiniteSets, TLC

VARIABLES
    layout_list,      \* self.layout_list of the iterated container (a Panel)
    sub_components,   \* self._sub_components of that container
    op,               \* the operation that ran last
    exc,              \* the exception the last operation raised, or "none"
    ret,              \* what has_commands() returned last
    trace,            \* the child list before each layout entry of the last __iter__
    heap,             \* the components constructed so far, in order of creation
    call,             \* the arguments of the last constructor call
    aliases,          \* the user's alias settings (user_settings)
    added,            \* the components handed to add_component so far, in order
    threads,          \* where each thread that iterates the container stands
    interleaved       \* a thread has written into the list while another was swapping

vars == <<layout_list, sub_components, op, exc, ret, trace, heap, call, aliases,
          added, threads, interleaved>>

----------------------------------------------------------------------------
(* Bounds of the model *)

MaxChildren == 3
MaxLayout == 3
MaxObjs == 2
MaxConcChildren == 2
MaxConcLayout == 1

NameA == <<"A">>
NameB == <<"B">>
NameC == <<"C">>

Names == {NameA, NameB, NameC}

(* The kinds of child a Panel holds: commands and command groups.  Two of   *)
(* them share the display name "A".                                        *)
ChildKinds ==
    { [name |-> NameA, cls |-> "PushButton"],
      [name |-> NameB, cls |-> "PushButton"],
      [name |-> NameC, cls |-> "PushButton"],
      [name |-> NameA, cls |-> "PullDownButtonGroup"] }

RECURSIVE SeqsUpTo(_, _)
SeqsUpTo(S, n) ==
    IF n = 0 THEN { <<>> }
    ELSE LET shorter == SeqsUpTo(S, n - 1)
         IN  shorter \cup { Append(s, x) : s \in shorter, x \in S }

(* self.layout_list: None when the container has no layout file, else the  *)
(* lines of the file.                                                      *)
NoLayout == [none |-> TRUE, items |-> <<>>]

Layouts ==
    {NoLayout} \cup { [none |-> FALSE, items |-> l] : l \in SeqsUpTo(Names, MaxLayout) }

(* Python truth value of a list or None *)
Truthy(l) == ~l.none /\ Len(l.items) > 0

NoCall == [cls |-> "none", dir |-> <<>>, files |-> {}]

(* The threads that may iterate the container at once *)
Threads == {1, 2}

NoComp == [id |-> 0]

(* A thread that is not inside __iter__ *)
IdleThread == [pc |-> "idle", i |-> 0, k |-> 0, a |-> NoComp, b |-> NoComp]

----------------------------------------------------------------------------
(* GenericContainer: the layout reconciliation *)

ComponentNames(subs) == { subs[k].name : k \in 1..Len(subs) }

(* A swap that writes nothing back *)
BrokenSwap(subs, i, j) == subs

(* A swap that writes one of the two slots only *)
HalfSwap(subs, i, j) == [subs EXCEPT ![i] = subs[j]]

(* a, b = l[i], l[j];  l[i], l[j] = b, a *)
Swap(subs, i, j) ==
    [subs EXCEPT ![i] = subs[j], ![j] = subs[i]]

RECURSIVE ScanFrom(_, _, _, _)
(* The inner loop from cmp_index k on: every component whose name equals   *)
(* item is swapped with position i; the list is read live.  Reading        *)
(* position i of a shorter list raises IndexError.                         *)
ScanFrom(subs, i, item, k) ==
    IF k > Len(subs) THEN [subs |-> subs, err |-> FALSE]
    ELSE IF subs[k].name = item
         THEN IF i > Len(subs)
              THEN [subs |-> subs, err |-> TRUE]
              ELSE ScanFrom(Swap(subs, i, k), i, item, k + 1)
         ELSE ScanFrom(subs, i, item, k + 1)

(* A variant that treats a layout entry naming no child as an error *)
RaiseIfMissing(subs, i, item) ==
    IF item \notin ComponentNames(subs)
    THEN [subs |-> subs, err |-> TRUE]
    ELSE ScanFrom(subs, i, item, 1)

(* One pass of the outer loop: layout entry i (1-based), name item *)
ProcessLayoutItem(subs, i, item) == ScanFrom(subs, i, item, 1)

RECURSIVE ProcessFrom(_, _, _, _)
ProcessFrom(subs, items, i, tr) ==
    IF i > Len(items) THEN [subs |-> subs, err |-> FALSE, trace |-> tr]
    ELSE LET r == ProcessLayoutItem(subs, i, items[i])
         IN  IF r.err
             THEN [subs |-> r.subs, err |-> TRUE, trace |-> tr]
             ELSE ProcessFrom(r.subs, items, i + 1, Append(tr, r.subs))

process_components_per_layout(subs, layout) ==
    IF Truthy(layout) /\ Len(subs) > 0
    THEN ProcessFrom(subs, layout.items, 1, <<subs>>)
    ELSE [subs |-> subs, err |-> FALSE, trace |-> <<subs>>]

(* A variant that inserts the new child at the front *)
PrependComponent(subs, comp) == <<comp>> \o subs

add_component(subs, comp) == Append(subs, comp)

(* A variant that never reports commands *)
NeverHasCommands(subs) == FALSE

has_commands(subs) == IF Len(subs) > 0 THEN TRUE ELSE FALSE

----------------------------------------------------------------------------
(* The operations on the Panel *)

Init ==
    /\ layout_list \in Layouts
    /\ sub_components = <<>>
    /\ op = "init"
    /\ exc = "none"
    /\ ret = FALSE
    /\ trace = <<>>
    /\ heap = <<>>
    /\ call = NoCall
    /\ aliases = {}
    /\ added = <<>>
    /\ threads = [t \in Threads |-> IdleThread]
    /\ interleaved = FALSE

(* The tree walker hands a newly built child to the container *)
AddComponent ==
    /\ Len(sub_components) < MaxChildren
    /\ \E kind \in ChildKinds :
         LET comp == [id |-> Len(sub_components) + 1, name |-> kind.name, cls |-> kind.cls]
         IN  /\ sub_components' = add_component(sub_components, comp)
             /\ added' = Append(added, comp)
    /\ op' = "add_component"
    /\ exc' = "none"
    /\ trace' = <<>>
    /\ UNCHANGED <<layout_list, ret, heap, call, aliases, threads, interleaved>>

(* iter(container): reconcile, then hand out the list *)
Iter ==
    LET r == process_components_per_layout(sub_components, layout_list)
    IN  /\ sub_components' = r.subs
        /\ exc' = IF r.err THEN "IndexError" ELSE "none"
        /\ trace' = r.trace
        /\ op' = "iter"
        /\ UNCHANGED <<layout_list, ret, heap, call, aliases, added, threads, interleaved>>

HasCommands ==
    /\ ret' = has_commands(sub_components)
    /\ op' = "has_commands"
    /\ exc' = "none"
    /\ trace' = <<>>
    /\ UNCHANGED <<layout_list, sub_components, heap, call, aliases, added, threads,
                   interleaved>>

Next == AddComponent \/ Iter \/ HasCommands

Spec == Init /\ [][Next]_vars

----------------------------------------------------------------------------
(* Strings: the library functions the constructors use *)

Sep == "/"
ExtSep == "."

(* str.endswith *)
EndsWith(s, suffix) ==
    /\ Len(s) >= Len(suffix)
    /\ SubSeq(s, Len(s) - Len(suffix) + 1, Len(s)) = suffix

(* str.rfind of one character, 1-based; 0 when the character is absent *)
RFind(s, c) ==
    IF \E k \in 1..Len(s) : s[k] = c
    THEN CHOOSE k \in 1..Len(s) : s[k] = c /\ \A m \in (k + 1)..Len(s) : s[m] # c
    ELSE 0

(* str.find of one character, 1-based; 0 when the character is absent *)
Find(s, c) ==
    IF \E k \in 1..Len(s) : s[k] = c
    THEN CHOOSE k \in 1..Len(s) : s[k] = c /\ \A m \in 1..(k - 1) : s[m] # c
    ELSE 0

RECURSIVE Split(_, _)
(* str.split(sep) *)
Split(s, c) ==
    LET k == Find(s, c)
    IN  IF k = 0 THEN << s >>
        ELSE << SubSeq(s, 1, k - 1) >> \o Split(SubSeq(s, k + 1, Len(s)), c)

(* os.path.basename *)
BaseName(p) == SubSeq(p, RFind(p, Sep) + 1, Len(p))

(* os.path.splitext: the extension starts at the last dot of the last      *)
(* path segment, unless only dots come before it in that segment.          *)
SplitExt(p) ==
    LET sepIndex == RFind(p, Sep)
        dotIndex == RFind(p, ExtSep)
    IN  IF /\ dotIndex > sepIndex
           /\ \E k \in (sepIndex + 1)..(dotIndex - 1) : p[k] # ExtSep
        THEN << SubSeq(p, 1, dotIndex - 1), SubSeq(p, dotIndex, Len(p)) >>
        ELSE << p, <<>> >>

(* os.path.join of a directory and one name *)
Join(dir, name) ==
    IF dir = <<>> \/ dir[Len(dir)] = Sep THEN dir \o name ELSE dir \o <<Sep>> \o name

(* utils.cleanup_string: takes the characters out that an identifier       *)
(* cannot hold ('Flip doors' becomes 'Flipdoors').                         *)
cleanup_string(s) == SelectSeq(s, LAMBDA c : c # " ")

(* config: the suffix of each component type and the file names *)
PANEL_POSTFIX == <<".", "p", "a", "n", "e", "l">>
PUSH_BUTTON_POSTFIX == <<".", "p", "u", "s", "h", "b", "u", "t", "t", "o", "n">>
PULLDOWN_BUTTON_POSTFIX == <<".", "p", "u", "l", "l", "d", "o", "w", "n">>
COMPONENT_LIB_NAME == <<"L", "i", "b">>
DEFAULT_SCRIPT_FILE == "script.py"
DEFAULT_ICON_FILE == "icon.png"
DEFAULT_LAYOUT_FILE_NAME == "_layout"
None == "None"

ContainerClasses == {"PullDownButtonGroup"}
CommandClasses == {"PushButton"}

(* type_id of each class *)
TypeId(cls) ==
    CASE cls = "Panel" -> PANEL_POSTFIX
      [] cls = "PullDownButtonGroup" -> PULLDOWN_BUTTON_POSTFIX
      [] cls = "PushButton" -> PUSH_BUTTON_POSTFIX

(* user_settings.get_alias: the user's name for (original_name, type_id),  *)
(* the original name when the user has set none.                           *)
get_alias(al, original_name, type_id) ==
    IF \E a \in al : a.original = original_name /\ a.type_id = type_id
    THEN (CHOOSE a \in al : a.original = original_name /\ a.type_id = type_id).alias
    ELSE original_name

----------------------------------------------------------------------------
(* GenericContainer and GenericCommand: construction *)

is_valid_dir(directory, type_id) == EndsWith(directory, type_id)

get_name(directory) == SplitExt(BaseName(directory))[1]

get_library(directory) == Join(directory, COMPONENT_LIB_NAME)

verify_file(files, file_name) == IF file_name \in files THEN file_name ELSE None

RECURSIVE UniqueNameOf(_)
(* The loop of _get_unique_name over the segments still to visit *)
UniqueNameOf(segments) ==
    IF segments = <<>> THEN <<>>
    ELSE LET parts == SplitExt(Head(segments))
         IN  IF parts[2] # <<>>
             THEN parts[1] \o UniqueNameOf(Tail(segments))
             ELSE UniqueNameOf(Tail(segments))

(* A variant that does not skip the segments without an extension *)
UniqueNameOfAllSegments(directory) ==
    LET RECURSIVE All(_)
        All(segments) ==
            IF segments = <<>> THEN <<>>
            ELSE SplitExt(Head(segments))[1] \o All(Tail(segments))
    IN  cleanup_string(All(Split(directory, Sep)))

get_unique_name(directory) == cleanup_string(UniqueNameOf(Split(directory, Sep)))

read_layout_file(files, lines) ==
    IF verify_file(files, DEFAULT_LAYOUT_FILE_NAME) # None
    THEN [none |-> FALSE, items |-> lines]
    ELSE NoLayout

Raised(e) == [exc |-> e, made |-> FALSE, obj |-> [id |-> 0]]

Made(o) == [exc |-> "none", made |-> TRUE, obj |-> o]

GenericContainer__init__(id, cls, al, branch_dir, files, lines) ==
    IF ~is_valid_dir(branch_dir, TypeId(cls))
    THEN Raised("PyRevitUnknownFormatError")
    ELSE Made([ id |-> id,
                cls |-> cls,
                directory |-> branch_dir,
                original_name |-> get_name(branch_dir),
                name |-> get_alias(al, get_name(branch_dir), TypeId(cls)),
                unique_name |-> get_unique_name(branch_dir),
                library_path |-> get_library(branch_dir),
                layout_list |-> read_layout_file(files, lines),
                icon_file |-> verify_file(files, DEFAULT_ICON_FILE),
                sub_components |-> <<>> ])

(* A variant that looks for the script file before it checks the suffix *)
ScriptCheckFirst(id, cls, al, cmd_dir, files) ==
    IF verify_file(files, DEFAULT_SCRIPT_FILE) = None
    THEN Raised("PyRevitNoScriptFileError")
    ELSE IF ~is_valid_dir(cmd_dir, TypeId(cls))
    THEN Raised("PyRevitUnknownFormatError")
    ELSE Made([ id |-> id,
                cls |-> cls,
                directory |-> cmd_dir,
                original_name |-> get_name(cmd_dir),
                name |-> get_alias(al, get_name(cmd_dir), TypeId(cls)),
                icon_file |-> verify_file(files, DEFAULT_ICON_FILE),
                script_file |-> DEFAULT_SCRIPT_FILE,
                unique_name |-> get_unique_name(cmd_dir),
                library_path |-> get_library(cmd_dir),
                search_paths |-> << get_library(cmd_dir) >> ])

(* A variant that goes on without a script file *)
NoScriptCheck(id, cls, al, cmd_dir, files) ==
    IF ~is_valid_dir(cmd_dir, TypeId(cls))
    THEN Raised("PyRevitUnknownFormatError")
    ELSE Made([ id |-> id,
                cls |-> cls,
                directory |-> cmd_dir,
                original_name |-> get_name(cmd_dir),
                name |-> get_alias(al, get_name(cmd_dir), TypeId(cls)),
                icon_file |-> verify_file(files, DEFAULT_ICON_FILE),
                script_file |-> verify_file(files, DEFAULT_SCRIPT_FILE),
                unique_name |-> get_unique_name(cmd_dir),
                library_path |-> get_library(cmd_dir),
                search_paths |-> << get_library(cmd_dir) >> ])

(* The fields read from the text of the script (min versions, doc string,  *)
(* author) are left out: the text of the script is not part of the state.  *)
GenericCommand__init__(id, cls, al, cmd_dir, files) ==
    IF ~is_valid_dir(cmd_dir, TypeId(cls))
    THEN Raised("PyRevitUnknownFormatError")
    ELSE IF verify_file(files, DEFAULT_SCRIPT_FILE) = None
    THEN Raised("PyRevitNoScriptFileError")
    ELSE Made([ id |-> id,
                cls |-> cls,
                directory |-> cmd_dir,
                original_name |-> get_name(cmd_dir),
                name |-> get_alias(al, get_name(cmd_dir), TypeId(cls)),
                icon_file |-> verify_file(files, DEFAULT_ICON_FILE),
                script_file |-> verify_file(files, DEFAULT_SCRIPT_FILE),
                unique_name |-> get_unique_name(cmd_dir),
                library_path |-> get_library(cmd_dir),
                search_paths |-> << get_library(cmd_dir) >> ])

----------------------------------------------------------------------------
(* The directories, files and alias settings the constructors are tried on *)

PanelDir == <<"P">> \o PANEL_POSTFIX

CtorDirs ==
    { Join(PanelDir, <<"A">> \o PUSH_BUTTON_POSTFIX),
      Join(PanelDir, <<"B">> \o PUSH_BUTTON_POSTFIX),
      Join(PanelDir, <<"A", " ", "B">> \o PUSH_BUTTON_POSTFIX),
      Join(Join(PanelDir, <<"x">>), <<"A">> \o PUSH_BUTTON_POSTFIX),
      Join(PanelDir, <<"A">> \o PULLDOWN_BUTTON_POSTFIX),
      Join(PanelDir, COMPONENT_LIB_NAME) }

CommandFileSets == { {}, {DEFAULT_ICON_FILE}, {DEFAULT_SCRIPT_FILE} }

ContainerFileSets == { {}, {DEFAULT_LAYOUT_FILE_NAME} }

LayoutFileLines == << NameB, NameA >>

AliasSettings ==
    { {},
      { [original |-> NameB, type_id |-> PUSH_BUTTON_POSTFIX, alias |-> NameA] } }

----------------------------------------------------------------------------
(* The operations of the tree walker that builds the children of the Panel *)

InitCtor ==
    /\ layout_list = NoLayout
    /\ sub_components = <<>>
    /\ op = "init"
    /\ exc = "none"
    /\ ret = FALSE
    /\ trace = <<>>
    /\ heap = <<>>
    /\ call = NoCall
    /\ aliases \in AliasSettings
    /\ added = <<>>
    /\ threads = [t \in Threads |-> IdleThread]
    /\ interleaved = FALSE

Construct(r) ==
    /\ exc' = r.exc
    /\ heap' = IF r.made THEN Append(heap, r.obj) ELSE heap
    /\ op' = "new"
    /\ UNCHANGED <<layout_list, sub_components, ret, trace, aliases, added, threads,
                   interleaved>>

NewCommand ==
    /\ Len(heap) < MaxObjs
    /\ \E cls \in CommandClasses, dir \in CtorDirs, files \in CommandFileSets :
         /\ call' = [cls |-> cls, dir |-> dir, files |-> files]
         /\ Construct(GenericCommand__init__(Len(heap) + 1, cls, aliases, dir, files))

NewContainer ==
    /\ Len(heap) < MaxObjs
    /\ \E cls \in ContainerClasses, dir \in CtorDirs, files \in ContainerFileSets :
         /\ call' = [cls |-> cls, dir |-> dir, files |-> files]
         /\ Construct(GenericContainer__init__(Len(heap) + 1, cls, aliases, dir, files,
                                               LayoutFileLines))

(* A component that was built is handed to the Panel, once *)
AddBuilt ==
    /\ \E k \in 1..Len(heap) :
         /\ \A m \in 1..Len(sub_components) : sub_components[m].id # heap[k].id
         /\ sub_components' = add_component(sub_components, heap[k])
         /\ added' = Append(added, heap[k])
    /\ op' = "add_component"
    /\ exc' = "none"
    /\ call' = NoCall
    /\ UNCHANGED <<layout_list, ret, trace, heap, aliases, threads, interleaved>>

NextCtor == NewCommand \/ NewContainer \/ AddBuilt

SpecCtor == InitCtor /\ [][NextCtor]_vars

----------------------------------------------------------------------------
(* Two threads iterate the same container.  Each runs the loops of         *)
(* _process_components_per_layout one list access at a time: the fetch of  *)
(* the next component by the inner loop, the two reads of line 133 and     *)
(* the two writes of line 134.  i and k are the positions i_index + 1 and  *)
(* cmp_index + 1.  item_found only feeds the log and is left out.          *)

ConcLayouts ==
    {NoLayout} \cup { [none |-> FALSE, items |-> l] : l \in SeqsUpTo(Names, MaxConcLayout) }

(* list.__setitem__ *)
StoreItem(subs, idx, value) == [subs EXCEPT ![idx] = value]

(* A variant of line 134 that stores b in both slots *)
SecondStoredTwice(a, b) == b

(* l[i], l[k] = b, a: what the first and the second store write *)
FirstStored(a, b) == b

SecondStored(a, b) == a

(* Thread u has read a slot for a swap and has not yet written both slots *)
Swapping(u) == threads[u].pc \in {"read_b", "write_i", "write_k"}

AllIdle == \A t \in Threads : threads[t].pc = "idle"

InitConc ==
    /\ layout_list \in ConcLayouts
    /\ sub_components = <<>>
    /\ op = "init"
    /\ exc = "none"
    /\ ret = FALSE
    /\ trace = <<>>
    /\ heap = <<>>
    /\ call = NoCall
    /\ aliases = {}
    /\ added = <<>>
    /\ threads = [t \in Threads |-> IdleThread]
    /\ interleaved = FALSE

(* The tree walker fills the container before any thread iterates it *)
ConcAdd ==
    /\ AllIdle
    /\ Len(sub_components) < MaxConcChildren
    /\ AddComponent

ConcFrame == UNCHANGED <<layout_list, ret, trace, heap, call, aliases, added>>

(* __iter__ is entered: the guard of line 127 *)
ThreadStart(t) ==
    /\ threads[t].pc = "idle"
    /\ threads' = [threads EXCEPT ![t] =
                     IF Truthy(layout_list) /\ Len(sub_components) > 0
                     THEN [IdleThread EXCEPT !.pc = "fetch", !.i = 1, !.k = 1]
                     ELSE [IdleThread EXCEPT !.pc = "done"]]
    /\ op' = "iter"
    /\ UNCHANGED <<sub_components, exc, interleaved>>
    /\ ConcFrame

(* The inner loop takes the next component, or ends and the outer loop     *)
(* takes the next layout entry, or ends too.                               *)
ThreadFetch(t) ==
    LET th == threads[t]
    IN  /\ th.pc = "fetch"
        /\ threads' = [threads EXCEPT ![t] =
              IF th.k > Len(sub_components)
              THEN IF th.i + 1 > Len(layout_list.items)
                   THEN [th EXCEPT !.pc = "done"]
                   ELSE [th EXCEPT !.i = th.i + 1, !.k = 1]
              ELSE IF sub_components[th.k].name = layout_list.items[th.i]
                   THEN [th EXCEPT !.pc = "read_a"]
                   ELSE [th EXCEPT !.k = th.k + 1]]
        /\ UNCHANGED <<sub_components, op, exc, interleaved>>
        /\ ConcFrame

(* a = self._sub_components[i_index], IndexError beyond the end *)
ThreadReadA(t) ==
    LET th == threads[t]
    IN  /\ th.pc = "read_a"
        /\ IF th.i > Len(sub_components)
           THEN /\ threads' = [threads EXCEPT ![t] = [th EXCEPT !.pc = "raised"]]
                /\ exc' = "IndexError"
           ELSE /\ threads' = [threads EXCEPT ![t] =
                                 [th EXCEPT !.pc = "read_b", !.a = sub_components[th.i]]]
                /\ exc' = exc
        /\ UNCHANGED <<sub_components, op, interleaved>>
        /\ ConcFrame

(* b = self._sub_components[cmp_index] *)
ThreadReadB(t) ==
    LET th == threads[t]
    IN  /\ th.pc = "read_b"
        /\ threads' = [threads EXCEPT ![t] =
                         [th EXCEPT !.pc = "write_i", !.b = sub_components[th.k]]]
        /\ UNCHANGED <<sub_components, op, exc, interleaved>>
        /\ ConcFrame

(* self._sub_components[i_index] = b *)
ThreadWriteI(t) ==
    LET th == threads[t]
    IN  /\ th.pc = "write_i"
        /\ sub_components' = StoreItem(sub_components, th.i, FirstStored(th.a, th.b))
        /\ threads' = [threads EXCEPT ![t] = [th EXCEPT !.pc = "write_k"]]
        /\ interleaved' = (interleaved \/ \E u \in Threads \ {t} : Swapping(u))
        /\ UNCHANGED <<op, exc>>
        /\ ConcFrame

(* self._sub_components[cmp_index] = a, and on to the next component; a    *)
(* and b are not read again before line 133 sets them anew.                *)
ThreadWriteK(t) ==
    LET th == threads[t]
    IN  /\ th.pc = "write_k"
        /\ sub_components' = StoreItem(sub_components, th.k, SecondStored(th.a, th.b))
        /\ threads' = [threads EXCEPT ![t] =
                         [th EXCEPT !.pc = "fetch", !.k = th.k + 1,
                                    !.a = NoComp, !.b = NoComp]]
        /\ interleaved' = (interleaved \/ \E u \in Threads \ {t} : Swapping(u))
        /\ UNCHANGED <<op, exc>>
        /\ ConcFrame

NextConc ==
    \/ ConcAdd
    \/ \E t \in Threads :
          \/ ThreadStart(t)
          \/ ThreadFetch(t)
          \/ ThreadReadA(t)
          \/ ThreadReadB(t)
          \/ ThreadWriteI(t)
          \/ ThreadWriteK(t)

SpecConc == InitConc /\ [][NextConc]_vars

----------------------------------------------------------------------------
(* Properties of the construction *)

IsCommandCall(c) == c.cls \in CommandClasses

(* C6: a constructor called on a directory that does not end with the      *)
(* suffix of its type raises PyRevitUnknownFormatError and makes no        *)
(* component, whatever files the directory holds, a missing script file    *)
(* included.                                                               *)
C6_WrongSuffixRaises ==
    [][(op' = "new" /\ ~EndsWith(call'.dir, TypeId(call'.cls)))
          => /\ exc' = "PyRevitUnknownFormatError"
             /\ heap' = heap
             /\ sub_components' = sub_components]_vars

C6_Witness ==
    /\ op = "new"
    /\ IsCommandCall(call)
    /\ ~EndsWith(call.dir, TypeId(call.cls))
    /\ DEFAULT_SCRIPT_FILE \notin call.files
    /\ exc = "PyRevitUnknownFormatError"
    /\ Len(heap) = 1

(* C7: a command constructor called on a directory with the right suffix   *)
(* and no script file raises PyRevitNoScriptFileError; no command is       *)
(* made, the children of the Panel stay as they are, and no child of the   *)
(* Panel is a command without a script file.                               *)
C7_MissingScriptRaises ==
    /\ [][( /\ op' = "new"
            /\ IsCommandCall(call')
            /\ EndsWith(call'.dir, TypeId(call'.cls))
            /\ DEFAULT_SCRIPT_FILE \notin call'.files )
             => /\ exc' = "PyRevitNoScriptFileError"
                /\ heap' = heap
                /\ sub_components' = sub_components]_vars
    /\ [](\A k \in 1..Len(sub_components) :
              sub_components[k].cls \in CommandClasses
                  => sub_components[k].script_file = DEFAULT_SCRIPT_FILE)

C7_Witness ==
    /\ op = "new"
    /\ IsCommandCall(call)
    /\ EndsWith(call.dir, TypeId(call.cls))
    /\ call.files = {DEFAULT_ICON_FILE}
    /\ exc = "PyRevitNoScriptFileError"
    /\ Len(sub_components) = 1
    /\ Len(heap) = 1

(* The segment of directory d that holds position p: its first and last    *)
(* position.                                                               *)
SegFirst(d, p) ==
    IF \E q \in 1..p : d[q] = Sep
    THEN 1 + CHOOSE q \in 1..p : d[q] = Sep /\ \A m \in (q + 1)..p : d[m] # Sep
    ELSE 1

SegLast(d, p) ==
    IF \E q \in p..Len(d) : d[q] = Sep
    THEN (CHOOSE q \in p..Len(d) : d[q] = Sep /\ \A m \in p..(q - 1) : d[m] # Sep) - 1
    ELSE Len(d)

(* Position p of d is part of a unique name: it is in the stem of a        *)
(* segment that has an extension, and it is not a space.                   *)
InStem(d, p) ==
    /\ d[p] # Sep
    /\ d[p] # " "
    /\ \E dot \in (p + 1)..SegLast(d, p) :
          /\ d[dot] = ExtSep
          /\ \A m \in (dot + 1)..SegLast(d, p) : d[m] # ExtSep
          /\ \E m \in SegFirst(d, p)..(dot - 1) : d[m] # ExtSep

RECURSIVE StemsFrom(_, _)
StemsFrom(d, p) ==
    IF p > Len(d) THEN <<>>
    ELSE (IF InStem(d, p) THEN << d[p] >> ELSE <<>>) \o StemsFrom(d, p + 1)

----------------------------------------------------------------------------
(* Properties of the layout reconciliation *)

DistinctNames(subs) ==
    \A a, b \in 1..Len(subs) : a # b => subs[a].name # subs[b].name

DistinctItems(items) ==
    \A a, b \in 1..Len(items) : a # b => items[a] # items[b]

NamesOf(subs) == [k \in 1..Len(subs) |-> subs[k].name]

(* The last operation was an iteration that ran the reconciliation *)
Reconciled == op = "iter" /\ Truthy(layout_list) /\ Len(sub_components) > 0

(* Positions of the components of subs called item *)
Matches(subs, item) == { k \in 1..Len(subs) : subs[k].name = item }

FirstMatch(subs, item) ==
    CHOOSE k \in Matches(subs, item) : \A m \in Matches(subs, item) : k <= m

(* C1: iterating a container twice in a row, with no add_component in      *)
(* between, has the same outcome both times: the same exception or the     *)
(* same order of children, whatever the layout and the children.           *)
C1_IterTwiceSameOrder ==
    [][(op = "iter" /\ op' = "iter")
          => (exc' = exc /\ sub_components' = sub_components)]_vars

(* C2: with a layout longer than the child list, the iteration raises      *)
(* nothing and the entries at positions beyond the children change         *)
(* nothing, whether or not their name matches a child.                     *)
C2_LongLayoutIgnored ==
    (Reconciled /\ Len(layout_list.items) > Len(sub_components))
        => /\ exc = "none"
           /\ Len(trace) = Len(layout_list.items) + 1
           /\ \A k \in (Len(sub_components) + 1)..Len(layout_list.items) :
                  trace[k + 1] = trace[k]

(* C3: children of pairwise distinct names, a layout of pairwise distinct  *)
(* names that is no longer than the child list: after the reconciliation   *)
(* every layout position whose name matches a child holds that child.      *)
C3_LayoutPositionsHold ==
    ( /\ Reconciled
      /\ DistinctNames(sub_components)
      /\ DistinctItems(layout_list.items)
      /\ Len(layout_list.items) <= Len(sub_components) )
        => /\ exc = "none"
           /\ \A i \in 1..Len(layout_list.items) :
                  layout_list.items[i] \in ComponentNames(sub_components)
                      => sub_components[i].name = layout_list.items[i]

C3_Witness ==
    /\ Reconciled
    /\ exc = "none"
    /\ layout_list.items = <<NameB, NameA>>
    /\ NamesOf(trace[1]) = <<NameA, NameC, NameB>>
    /\ NamesOf(sub_components) = <<NameB, NameA, NameC>>

(* C4: a layout entry that names no current child leaves the whole child   *)
(* list as it was before the entry and raises nothing, and the             *)
(* reconciliation goes on to the next entry.                               *)
C4_UnmatchedEntryNoChange ==
    Reconciled
        => \A k \in 1..Len(layout_list.items) :
               (k <= Len(trace) /\ layout_list.items[k] \notin ComponentNames(trace[k]))
                   => /\ Len(trace) >= k + 1
                      /\ trace[k + 1] = trace[k]

C4_Witness ==
    /\ Reconciled
    /\ exc = "none"
    /\ layout_list.items = <<NameC, NameA>>
    /\ NamesOf(trace[1]) = <<NameA, NameB>>
    /\ trace[2] = trace[1]
    /\ NamesOf(sub_components) = <<NameB, NameA>>

(* C5: when several children carry the name of layout entry i, the first   *)
(* match wins: after entry i the child at position i is the match that     *)
(* was earliest when the scan began, and exactly one swap was made.        *)
C5_FirstMatchWins ==
    Reconciled
        => \A k \in 1..Len(layout_list.items) :
               ( /\ k + 1 <= Len(trace)
                 /\ Cardinality(Matches(trace[k], layout_list.items[k])) >= 2 )
                   => LET j == FirstMatch(trace[k], layout_list.items[k])
                      IN  /\ trace[k + 1][k] = trace[k][j]
                          /\ trace[k + 1] = Swap(trace[k], k, j)

(* C9: has_commands() of a Panel returns true exactly when the Panel has   *)
(* at least one direct child, and leaves the child list alone.             *)
C9_HasCommandsIffChild ==
    [][op' = "has_commands"
          => /\ ret' = (Len(sub_components) >= 1)
             /\ sub_components' = sub_components]_vars

C9_Witness ==
    /\ op = "has_commands"
    /\ ret = TRUE
    /\ Len(sub_components) = 1
    /\ sub_components[1].cls = "PullDownButtonGroup"

(* C10: without a layout file, or with an empty one, the children stay in  *)
(* the order of the add_component calls: each call appends, children of    *)
(* equal names are accepted, and iterating does not reorder.               *)
C10_InsertionOrderKept ==
    ~Truthy(layout_list)
        => /\ exc = "none"
           /\ \A k \in 1..Len(sub_components) : sub_components[k].id = k

C10_Witness ==
    /\ op = "iter"
    /\ ~layout_list.none
    /\ layout_list.items = <<>>
    /\ Len(sub_components) = 3
    /\ ~DistinctNames(sub_components)

(* How often x occurs in the sequence s *)
Count(s, x) == Cardinality({ k \in 1..Len(s) : s[k] = x })

IsPermutation(s, t) ==
    /\ Len(s) = Len(t)
    /\ \A k \in 1..Len(t) : Count(s, t[k]) = Count(t, t[k])

(* C12: in single-threaded use the child list is a permutation of the       *)
(* components added so far, after every add_component and every            *)
(* iteration: the reconciliation drops, doubles or replaces no child and   *)
(* keeps the number of children.  (An iteration that raises IndexError     *)
(* raises before it writes, so the same holds after it.)                   *)
C12_ChildrenPermutationOfAdded ==
    IsPermutation(sub_components, added)

C12_Witness ==
    /\ Reconciled
    /\ exc = "none"
    /\ Len(sub_components) = 3
    /\ added = trace[1]
    /\ \A k \in 1..3 : sub_components[k] # added[k]

AllDone == \A t \in Threads : threads[t].pc \in {"done", "raised"}

(* No thread stands between the two stores of line 134 *)
NoHalfSwap == \A t \in Threads : threads[t].pc # "write_k"

(* C11: with two threads iterating the same container, the child list can  *)
(* be left with a child twice and another lost, which no single-threaded   *)
(* run does, and this happens only when the swap steps of the threads      *)
(* interleave: whenever no swap is half written and the list is not a      *)
(* permutation of the components added, one thread has written into the    *)
(* list between the first read and the last write of a swap of the other.  *)
C11_LossOnlyWhenInterleaved ==
    (NoHalfSwap /\ ~IsPermutation(sub_components, added)) => interleaved

(* Both threads have finished, one child is in the list twice and another  *)
(* is lost.                                                                *)
C11_Witness ==
    /\ AllDone
    /\ interleaved
    /\ Len(sub_components) = Len(added)
    /\ \E p, q \in 1..Len(sub_components) : p # q /\ sub_components[p] = sub_components[q]
    /\ \E p \in 1..Len(added) : Count(sub_components, added[p]) = 0

====
